---- MODULE Spec2Model ----
(***************************************************************************)
(* The UDP broadcast listener (class UDP_Client of                         *)
(* client_class_w_selectors_papermill.ipynb) with its environment: the     *)
(* receive buffer of its socket, the acknowledgments it has sent, the      *)
(* clock, the operator's interrupt, and the publisher that broadcasts to   *)
(* it.  Time is counted in units of one readiness timeout (50 ms); the     *)
(* statements of the listener take no time, only the readiness wait does.  *)
(***************************************************************************)
EXTENDS Integers, Sequences, FiniteSets, TLC

(* ---------------------------- bounds ----------------------------------- *)

\* largest message_id an injected datagram carries
MaxId == 2
\* datagrams the environment injects besides the publisher's broadcasts
MaxInject == 2
\* ticks of the publisher
MaxTicks == 3
\* datagrams the receive buffer of the socket holds at once
MaxQueue == 2
\* the nonzero max_runtime the listener is configured with, in time units
RuntimeLimit == 1
\* the nonzero max_messages the listener is configured with
MessageLimit == 3
\* ticks of the publisher in a run that follows it round its state cycle
BurstTicks == 5
\* the max_messages of a listener that more datagrams reach than it takes
BurstLimit == 1

(* ------------------------ program constants ---------------------------- *)

\* selector.select(timeout=0.05): one time unit
PollTimeout == 1
\* self.last_processed_id = -1
InitialLastProcessedId == 0 - 1
\* message.get("message_id", -1)
MissingMessageId == 0 - 1
\* the publisher's first message id
InitialMessageId == 0

Unknown == "unknown"
Absent == "<absent>"
STATE_CYCLE == <<"ACTIVE", "STANDBY", "MAINTENANCE", "ERROR">>
StateSet == {STATE_CYCLE[i] : i \in 1..Len(STATE_CYCLE)}
PublisherAddr == "publisher"
OtherAddr == "other"
\* the elapsed time up to which the clock is followed
MaxTime(runtime) == runtime + PollTimeout + PollTimeout

VARIABLES
    pc,                 \* position of the listener process
    max_runtime,        \* self.max_runtime
    max_messages,       \* self.max_messages
    selector,           \* self.selector: "none", "open", "closed"
    registered,         \* client_socket is registered with the selector
    client_socket,      \* self.client_socket: "none", "open", "bound", "closed"
    response_socket,    \* self.response_socket: "none", "open", "closed"
    received_messages,  \* self.received_messages
    last_processed_id,  \* self.last_processed_id
    start_time,         \* self.start_time
    elapsed_time,       \* run_client's elapsed_time
    execution_stats,    \* self.execution_stats, its summary part
    queue,              \* datagrams waiting in the receive buffer of client_socket
    acks,               \* acknowledgments sent through response_socket
    now,                \* the clock
    interrupted,        \* a KeyboardInterrupt has been raised
    console,            \* what the latest handle_received_data reported
    max_decoded_id,     \* the largest message_id decoded so far
    budget,             \* the traffic this run's environment produces
    next_message_id,    \* publisher: id of the next broadcast
    current_state_index,\* publisher: index into STATE_CYCLE (0-based)
    broadcasts,         \* publisher: the messages broadcast so far
    net                 \* what the network and the operator did so far

vars == <<pc, max_runtime, max_messages, selector, registered, client_socket,
          response_socket, received_messages, last_processed_id, start_time,
          elapsed_time, execution_stats, queue, acks, now, interrupted, console,
          max_decoded_id, budget, next_message_id, current_state_index, broadcasts, net>>

listenerVars == <<pc, max_runtime, max_messages, selector, registered, client_socket,
                  response_socket, received_messages, last_processed_id, start_time,
                  elapsed_time, execution_stats, interrupted, console, max_decoded_id>>

publisherVars == <<next_message_id, current_state_index, broadcasts>>

(* --------------------------- wire format -------------------------------- *)

\* datetime.isoformat(): the text of a time
IsoFormat(t) == "T" \o ToString(t)

\* A datagram: who sent it and what its bytes are.  payload is "nonutf8" (bytes
\* that are no UTF-8 text), "badjson" (text that is no JSON, a truncated message
\* included), "nonobject" (JSON that is no object) or "object"; of an object,
\* id_type is "int", "str" (a message_id that is no number) or Absent.
Datagram(src, payload, id_type, id, state, timestamp) ==
    [src |-> src, payload |-> payload, id_type |-> id_type, id |-> id,
     state |-> state, timestamp |-> timestamp]

\* json.dumps of the publisher's message
Encode(id, state, timestamp) ==
    Datagram(PublisherAddr, "object", "int", id, state, timestamp)

\* Bytes that are no message
Malformed ==
    {Datagram(OtherAddr, p, Absent, 0, Absent, Absent) :
        p \in {"nonutf8", "badjson", "nonobject"}}

\* Copies of what a publisher encodes, from the publisher's address (a duplicate,
\* a late copy, a restarted publisher) and from another one
WellFormed ==
    {Datagram(s, "object", "int", i, STATE_CYCLE[(i % 4) + 1], IsoFormat(0)) :
        s \in {PublisherAddr, OtherAddr}, i \in 0..MaxId}

\* Objects that are not what the publisher encodes: a state outside the cycle, no
\* state, no timestamp (each with the lowest and with the highest id), no
\* message_id, a message_id that is no number
Deviant ==
    {Datagram(OtherAddr, "object", "int", i, "BOGUS", IsoFormat(0)) : i \in {0, MaxId}}
    \cup {Datagram(OtherAddr, "object", "int", i, Absent, IsoFormat(0)) : i \in {0, MaxId}}
    \cup {Datagram(OtherAddr, "object", "int", i, "ACTIVE", Absent) : i \in {0, MaxId}}
    \cup {Datagram(OtherAddr, "object", Absent, 0, "ACTIVE", IsoFormat(0)),
          Datagram(OtherAddr, "object", "str", 0, "ACTIVE", IsoFormat(0))}

Injectable == Malformed \cup WellFormed \cup Deviant

(* ----------------------------- listener -------------------------------- *)

Configurations == {0, RuntimeLimit} \X {0, MessageLimit}

\* The environment of one run: the publisher's broadcasts, or datagrams from
\* anywhere
Budgets == {[ticks |-> MaxTicks, inject |-> 0], [ticks |-> 0, inject |-> MaxInject]}

\* The environments the progress of the listener is followed in
LiveBudgets ==
    {[ticks |-> MaxTicks, inject |-> 0], [ticks |-> 0, inject |-> MaxInject - 1]}

\* A listener that stops on its first message or not on any
BurstConfigurations == {0, RuntimeLimit} \X {0, BurstLimit}

\* A publisher that goes on past one round of its state cycle, or one datagram
\* from anywhere
BurstBudgets == {[ticks |-> BurstTicks, inject |-> 0], [ticks |-> 0, inject |-> 1]}

NoDatagram == Datagram(Absent, Absent, Absent, 0, Absent, Absent)

\* What one invocation leaves on the console
Report(d, what) == [datagram |-> d, report |-> what]

NoReport == Report(NoDatagram, "nothing")

InitWith(configurations, budgets) ==
    /\ pc = "init"
    /\ \E c \in configurations : max_runtime = c[1] /\ max_messages = c[2]
    /\ selector = "none"
    /\ registered = FALSE
    /\ client_socket = "none"
    /\ response_socket = "none"
    /\ received_messages = <<>>
    /\ last_processed_id = InitialLastProcessedId
    /\ start_time = 0
    /\ elapsed_time = 0
    /\ execution_stats = [done |-> FALSE, runtime_seconds |-> 0,
                          messages_received |-> 0, received_messages |-> <<>>]
    /\ queue = <<>>
    /\ acks = <<>>
    /\ now = 0
    /\ interrupted = FALSE
    /\ console = NoReport
    /\ max_decoded_id = MissingMessageId
    /\ budget \in budgets
    /\ next_message_id = InitialMessageId
    /\ current_state_index = 0
    /\ broadcasts = <<>>
    /\ net = [injected |-> 0, ticks |-> 0, arrived |-> 0, lost |-> FALSE,
              send_failed |-> FALSE, ack_failed |-> FALSE]

Init == InitWith(Configurations, Budgets)

LiveInit == InitWith(Configurations, LiveBudgets)

BurstInit == InitWith(BurstConfigurations, BurstBudgets)

\* __init__ and _initialize_sockets.  failure names the call that raises, "none"
\* when none does: the exception leaves the constructor, nothing is released and
\* run_client is never called.
Construct(failure) ==
    /\ pc = "init"
    /\ selector' = "open"
    /\ client_socket' = CASE failure = "socket" -> "none"
                          [] failure = "bind" -> "open"
                          [] OTHER -> "bound"
    /\ response_socket' = IF failure \in {"socket", "bind", "response_socket"}
                          THEN "none" ELSE "open"
    /\ registered' = (failure = "none")
    /\ pc' = IF failure = "none" THEN "start" ELSE "init_failed"
    /\ UNCHANGED <<max_runtime, max_messages, received_messages, last_processed_id,
                   start_time, elapsed_time, execution_stats, queue, acks, now,
                   interrupted, console, max_decoded_id, budget, net>>
    /\ UNCHANGED publisherVars

\* run_client up to its try statement
RunClientStart ==
    /\ pc = "start"
    /\ start_time' = now
    /\ pc' = "check"
    /\ UNCHANGED <<max_runtime, max_messages, selector, registered, client_socket,
                   response_socket, received_messages, last_processed_id, elapsed_time,
                   execution_stats, queue, acks, now, interrupted, console, max_decoded_id, budget, net>>
    /\ UNCHANGED publisherVars

\* The runtime compared one readiness timeout late
RuntimeReached_Late(elapsed) == max_runtime > 0 /\ elapsed > max_runtime + PollTimeout

\* The lines of should_exit that compare the runtime
RuntimeReached(elapsed) == max_runtime > 0 /\ elapsed > max_runtime

\* The message count compared with > for >=
MessagesReached_Exceeded == max_messages > 0 /\ Len(received_messages) > max_messages

\* The lines of should_exit that compare the message count
MessagesReached == max_messages > 0 /\ Len(received_messages) >= max_messages

\* A bound of 0 compared like any other
should_exit_ZeroIsBound(elapsed) ==
    elapsed > max_runtime \/ Len(received_messages) >= max_messages

should_exit(elapsed) == RuntimeReached(elapsed) \/ MessagesReached

\* The head of an iteration of run_client's loop: the elapsed time and should_exit
LoopCheck ==
    /\ pc = "check"
    /\ elapsed_time' = now - start_time
    /\ pc' = IF should_exit(now - start_time) THEN "exiting" ELSE "select"
    /\ UNCHANGED <<max_runtime, max_messages, selector, registered, client_socket,
                   response_socket, received_messages, last_processed_id, start_time,
                   execution_stats, queue, acks, now, interrupted, console, max_decoded_id, budget, net>>
    /\ UNCHANGED publisherVars

\* selector.select(timeout=0.05) with nothing to read: it returns no event after
\* the timeout, and the loop goes round
SelectTimeout ==
    /\ pc = "select"
    /\ queue = <<>>
    /\ (now - start_time) + PollTimeout <= MaxTime(max_runtime)
    /\ now' = now + PollTimeout
    /\ pc' = "check"
    /\ UNCHANGED <<max_runtime, max_messages, selector, registered, client_socket,
                   response_socket, received_messages, last_processed_id, start_time,
                   elapsed_time, execution_stats, queue, acks, interrupted, console, max_decoded_id, budget, net>>
    /\ UNCHANGED publisherVars


(* ------------------------ handle_received_data -------------------------- *)

\* The fields read with message["timestamp"] and message["state"], which raise
\* KeyError when the key is missing
DecodeFailure_RequiredFields(d) ==
    CASE d.payload = "nonutf8" -> "UnicodeDecodeError"
      [] d.payload = "badjson" -> "JSONDecodeError"
      [] d.payload = "nonobject" -> "AttributeError"
      [] d.state = Absent \/ d.timestamp = Absent -> "KeyError"
      [] OTHER -> "none"

\* data.decode('utf-8'), json.loads and the three message.get calls: the exception
\* they end in ("none" when the message is decoded)
DecodeFailure(d) ==
    CASE d.payload = "nonutf8" -> "UnicodeDecodeError"
      [] d.payload = "badjson" -> "JSONDecodeError"
      [] d.payload = "nonobject" -> "AttributeError"
      [] OTHER -> "none"

\* message.get("timestamp", "unknown")
TimestampOf(d) == IF d.timestamp = Absent THEN Unknown ELSE d.timestamp

\* message.get("state", "unknown")
StateOf(d) == IF d.state = Absent THEN Unknown ELSE d.state

\* A missing message_id read as message.get("message_id", 0)
MessageIdOf_ZeroDefault(d) == IF d.id_type = Absent THEN 0 ELSE d.id

\* message.get("message_id", -1)
MessageIdOf(d) == IF d.id_type = Absent THEN MissingMessageId ELSE d.id

\* The comparison with >= for >: an id equal to the ratchet is taken again
IsNew_OrEqual(message_id, last) == message_id >= last

\* The comparison with != for >: any id other than the latest is taken
IsNew_NotLatest(message_id, last) == message_id # last

\* message_id > self.last_processed_id, which raises TypeError when message_id is
\* no number
IsNew(message_id, last) == message_id > last

\* The comparison of a message_id that is no number taken as one that succeeds
Verdict_NoTypeError(d, last) ==
    CASE DecodeFailure(d) = "JSONDecodeError" -> "invalid_json"
      [] DecodeFailure(d) # "none" -> "error"
      [] MessageIdOf(d) > last -> "accept"
      [] OTHER -> "drop"

\* The largest message_id recorded from one sender, -1 when there is none
LastFrom(src) ==
    LET ids == {received_messages[i].message_id :
                   i \in {k \in 1..Len(received_messages) :
                              received_messages[k].server = src}}
    IN IF ids = {} THEN InitialLastProcessedId
       ELSE CHOOSE m \in ids : \A n \in ids : m >= n

\* The message_id compared with the latest one of the same sender
Verdict_PerSender(d, last) ==
    CASE DecodeFailure(d) = "JSONDecodeError" -> "invalid_json"
      [] DecodeFailure(d) # "none" -> "error"
      [] d.id_type = "str" -> "error"
      [] IsNew(MessageIdOf(d), LastFrom(d.src)) -> "accept"
      [] OTHER -> "drop"

\* The outcome of the handler's try block up to the comparison
Verdict(d, last) ==
    CASE DecodeFailure(d) = "JSONDecodeError" -> "invalid_json"
      [] DecodeFailure(d) # "none" -> "error"
      [] d.id_type = "str" -> "error"
      [] IsNew(MessageIdOf(d), last) -> "accept"
      [] OTHER -> "drop"

\* The record appended to the message history
ReceivedRecord(d, receive_time) ==
    [server |-> d.src, timestamp |-> TimestampOf(d), receive_time |-> receive_time,
     state |-> StateOf(d), message_id |-> MessageIdOf(d)]

\* The acknowledgment sent to a fixed address, not to the datagram's sender
Acknowledgment_FixedAddress(d) == [to |-> OtherAddr, message_id |-> MessageIdOf(d)]

\* The acknowledgment and the address it goes to
Acknowledgment(d) == [to |-> d.src, message_id |-> MessageIdOf(d)]

Max(a, b) == IF a >= b THEN a ELSE b

\* selector.select returns the readable socket and the callback runs to its end;
\* send_ok tells whether response_socket.sendto succeeds
handle_received_data(send_ok) ==
    /\ pc = "select"
    /\ queue # <<>>
    /\ LET d == Head(queue)
           v == Verdict(d, last_processed_id)
       IN /\ queue' = Tail(queue)
          /\ IF v = "accept"
             THEN /\ last_processed_id' = MessageIdOf(d)
                  /\ received_messages' =
                         Append(received_messages, ReceivedRecord(d, IsoFormat(now)))
                  /\ acks' = IF send_ok THEN Append(acks, Acknowledgment(d)) ELSE acks
                  /\ net' = [net EXCEPT !.ack_failed = @ \/ ~send_ok]
                  /\ console' = Report(d, IF send_ok THEN "received" ELSE "received_error")
             ELSE /\ send_ok
                  /\ UNCHANGED <<last_processed_id, received_messages, acks, net>>
                  /\ console' = Report(d, v)
          /\ max_decoded_id' = IF v \in {"accept", "drop"}
                               THEN Max(max_decoded_id, MessageIdOf(d))
                               ELSE max_decoded_id
    /\ pc' = "check"
    /\ UNCHANGED <<max_runtime, max_messages, selector, registered, client_socket,
                   response_socket, start_time, elapsed_time, execution_stats, now,
                   interrupted, budget>>
    /\ UNCHANGED publisherVars

\* The interrupt with no except and no finally clause around the loop: it leaves
\* run_client and cleanup is not called
KeyboardInterrupt_Uncaught(at) ==
    /\ pc \in {"check", "select"}
    /\ ~interrupted
    /\ at = "loop"
    /\ interrupted' = TRUE
    /\ pc' = "aborted"
    /\ UNCHANGED <<max_runtime, max_messages, selector, registered, client_socket,
                   response_socket, received_messages, last_processed_id, start_time,
                   elapsed_time, execution_stats, queue, acks, now, console,
                   max_decoded_id, budget, net>>
    /\ UNCHANGED <<next_message_id, current_state_index, broadcasts>>

\* KeyboardInterrupt raised inside run_client's try statement: at "loop" outside
\* the callback (the readiness wait included); inside the callback "after_recv"
\* (recvfrom has returned), "after_ratchet" (last_processed_id is assigned) or
\* "after_append" (the record is appended, the acknowledgment not sent).  The
\* handler's except clauses do not catch it; run_client's does, and its finally
\* clause calls cleanup.
KeyboardInterrupt(at) ==
    /\ pc \in {"check", "select"}
    /\ ~interrupted
    /\ interrupted' = TRUE
    /\ pc' = "exiting"
    /\ IF at = "loop"
       THEN UNCHANGED <<queue, last_processed_id, received_messages, console,
                        max_decoded_id>>
       ELSE /\ pc = "select"
            /\ queue # <<>>
            /\ LET d == Head(queue)
               IN /\ at \in {"after_ratchet", "after_append"}
                        => Verdict(d, last_processed_id) = "accept"
                  /\ queue' = Tail(queue)
                  /\ last_processed_id' =
                        IF at = "after_recv" THEN last_processed_id ELSE MessageIdOf(d)
                  /\ received_messages' =
                        IF at = "after_append"
                        THEN Append(received_messages, ReceivedRecord(d, IsoFormat(now)))
                        ELSE received_messages
                  /\ max_decoded_id' =
                        IF at = "after_recv" THEN max_decoded_id
                        ELSE Max(max_decoded_id, MessageIdOf(d))
                  /\ console' = Report(d, "interrupted")
    /\ UNCHANGED <<max_runtime, max_messages, selector, registered, client_socket,
                   response_socket, start_time, elapsed_time, execution_stats, acks, now,
                   budget, net>>
    /\ UNCHANGED publisherVars

\* KeyboardInterrupt raised in run_client before its try statement: nothing
\* catches it and cleanup is not called
KeyboardInterruptBeforeTry ==
    /\ pc = "start"
    /\ ~interrupted
    /\ interrupted' = TRUE
    /\ pc' = "aborted"
    /\ UNCHANGED <<max_runtime, max_messages, selector, registered, client_socket,
                   response_socket, received_messages, last_processed_id, start_time,
                   elapsed_time, execution_stats, queue, acks, now, console, max_decoded_id, budget, net>>
    /\ UNCHANGED publisherVars

\* cleanup with the acknowledged messages counted for the received ones
cleanup_CountsAcks ==
    /\ pc = "exiting"
    /\ execution_stats' = [done |-> TRUE,
                           runtime_seconds |-> now - start_time,
                           messages_received |-> Len(acks),
                           received_messages |-> received_messages]
    /\ registered' = FALSE
    /\ selector' = "closed"
    /\ client_socket' = "closed"
    /\ response_socket' = "closed"
    /\ queue' = <<>>
    /\ pc' = "stopped"
    /\ UNCHANGED <<max_runtime, max_messages, received_messages, last_processed_id,
                   start_time, elapsed_time, acks, now, interrupted, console, max_decoded_id, budget, net>>
    /\ UNCHANGED <<next_message_id, current_state_index, broadcasts>>

\* run_client's finally clause
cleanup ==
    /\ pc = "exiting"
    /\ execution_stats' = [done |-> TRUE,
                           runtime_seconds |-> now - start_time,
                           messages_received |-> Len(received_messages),
                           received_messages |-> received_messages]
    /\ registered' = FALSE
    /\ selector' = "closed"
    /\ client_socket' = "closed"
    /\ response_socket' = "closed"
    /\ queue' = <<>>
    /\ pc' = "stopped"
    /\ UNCHANGED <<max_runtime, max_messages, received_messages, last_processed_id,
                   start_time, elapsed_time, acks, now, interrupted, console, max_decoded_id, budget, net>>
    /\ UNCHANGED publisherVars

(* ------------------------ network and publisher ------------------------- *)

\* A datagram from anywhere reaches the listener's port: a duplicate or a late
\* copy of a broadcast, a message of another sender, or bytes that are no message
Inject(d) ==
    /\ client_socket = "bound"
    /\ Len(queue) < MaxQueue
    /\ net.injected < budget.inject
    /\ queue' = Append(queue, d)
    /\ net' = [net EXCEPT !.injected = @ + 1, !.arrived = @ + 1]
    /\ UNCHANGED listenerVars
    /\ UNCHANGED <<acks, now, budget>>
    /\ UNCHANGED publisherVars

\* next_message_id incremented on every tick, a failed one included
AfterBroadcast_EveryTick(id, fate) == id + 1

\* next_message_id taken back by a failed send
AfterBroadcast_RollBack(id, fate) ==
    IF fate = "failed" THEN Max(id - 1, InitialMessageId) ELSE id + 1

\* next_message_id after a tick: it increments on every successful broadcast
AfterBroadcast(id, fate) == IF fate = "failed" THEN id ELSE id + 1

\* current_state_index advanced on a successful broadcast only
NextStateIndex_OnSuccess(index, fate) ==
    IF fate = "failed" THEN index ELSE (index + 1) % Len(STATE_CYCLE)

\* current_state_index after a tick: it advances cyclically on every tick
NextStateIndex(index, fate) == (index + 1) % Len(STATE_CYCLE)

\* One tick of the publisher whose interval has elapsed.  fate is "delivered" (the
\* broadcast reaches the listener's receive buffer), "lost" (it is sent and does
\* not reach the listener) or "failed" (the send raises).
tick(fate) ==
    /\ net.ticks < budget.ticks
    /\ LET message == Encode(next_message_id, STATE_CYCLE[current_state_index + 1],
                             IsoFormat(net.ticks))
       IN /\ broadcasts' = IF fate = "failed" THEN broadcasts
                                              ELSE Append(broadcasts, message)
          /\ next_message_id' = AfterBroadcast(next_message_id, fate)
          /\ IF fate = "delivered"
             THEN /\ client_socket = "bound"
                  /\ Len(queue) < MaxQueue
                  /\ queue' = Append(queue, message)
             ELSE UNCHANGED queue
    /\ current_state_index' = NextStateIndex(current_state_index, fate)
    /\ net' = [net EXCEPT !.ticks = @ + 1,
                          !.arrived = IF fate = "delivered" THEN @ + 1 ELSE @,
                          !.lost = @ \/ (fate = "lost"),
                          !.send_failed = @ \/ (fate = "failed")]
    /\ UNCHANGED listenerVars
    /\ UNCHANGED <<acks, now, budget>>

(* --------------------------- specification ------------------------------ *)

\* The listener's lifecycle: RUNNING is the loop of run_client
Lifecycle ==
    CASE pc \in {"init", "start"} -> "STARTING"
      [] pc \in {"check", "select"} -> "RUNNING"
      [] pc = "exiting" -> "EXITING"
      [] pc = "stopped" -> "STOPPED"
      [] pc = "init_failed" -> "FAILED"
      [] OTHER -> "ABORTED"

ListenerStep ==
    \/ \E failure \in {"none", "socket", "bind", "response_socket", "register"} :
          Construct(failure)
    \/ RunClientStart
    \/ LoopCheck
    \/ SelectTimeout
    \/ \E send_ok \in BOOLEAN : handle_received_data(send_ok)
    \/ cleanup

Interrupt ==
    \/ \E at \in {"loop", "after_recv", "after_ratchet", "after_append"} :
          KeyboardInterrupt(at)
    \/ KeyboardInterruptBeforeTry

Environment ==
    \/ \E d \in Injectable : Inject(d)
    \/ \E fate \in {"delivered", "lost", "failed"} : tick(fate)

Next == ListenerStep \/ Interrupt \/ Environment

Spec == Init /\ [][Next]_vars

\* The interpreter runs the listener's next statement: a listener that can take a
\* step takes it
LiveSpec == LiveInit /\ [][Next]_vars /\ WF_vars(ListenerStep)

\* The runs of a publisher that goes round its state cycle
BurstSpec == BurstInit /\ [][Next]_vars


(* ------------------------------ properties ------------------------------ *)

\* A step of handle_received_data that ran to its end
HandlerStep == pc = "select" /\ pc' = "check" /\ queue # <<>>

\* The datagram decodes to a message whose message_id is a number
Decodable(d) == d.payload = "object" /\ d.id_type # "str"

Ids(records) == [i \in 1..Len(records) |-> records[i].message_id]

Occurrences(seq, x) == Cardinality({i \in 1..Len(seq) : seq[i] = x})

ErrorReports == {"invalid_json", "error"}

\* C1: the handler accepts a decoded message if and only if its message_id is
\* greater than last_processed_id.  An id j <= last_processed_id is dropped: no
\* record, no acknowledgment, last_processed_id unchanged.  An id j >
\* last_processed_id is accepted, whatever ids it skips: its record is appended
\* and last_processed_id becomes j.
C1_AcceptIffGreater ==
    [][(HandlerStep /\ Decodable(Head(queue))) =>
          LET d == Head(queue)
              j == MessageIdOf(d)
          IN IF j > last_processed_id
             THEN /\ last_processed_id' = j
                  /\ Len(received_messages') = Len(received_messages) + 1
                  /\ SubSeq(received_messages', 1, Len(received_messages))
                        = received_messages
                  /\ received_messages'[Len(received_messages')].message_id = j
                  /\ console'.report \in {"received", "received_error"}
             ELSE /\ UNCHANGED <<last_processed_id, received_messages, acks>>
                  /\ console'.report = "drop"]_vars

\* C1 witness: an id that skips id 0 was accepted and the id delivered after it,
\* not greater, was dropped
C1_Witness ==
    /\ console.report = "drop"
    /\ Len(received_messages) = 1
    /\ received_messages[1].message_id > 0
    /\ console.datagram.id_type = "int"
    /\ console.datagram.id < last_processed_id

C3_Ratchet ==
    /\ [](last_processed_id = max_decoded_id /\ last_processed_id >= InitialLastProcessedId)
    /\ [][last_processed_id' >= last_processed_id]_vars

\* C3 witness: the ratchet is at the highest id and the datagram handled after
\* that left it there
C3_Witness ==
    /\ last_processed_id = MaxId
    /\ console.report \in {"drop", "error", "invalid_json"}

\* The payload does not conform to the message schema: no UTF-8 text, no JSON,
\* no object, a message_id that is no number, a state outside the cycle
NonConforming(d) ==
    \/ d.payload # "object"
    \/ d.id_type = "str"
    \/ d.state \notin (StateSet \cup {Absent})

\* The handler cannot decode the payload or compare its message_id
Undecodable(d) == d.payload # "object" \/ d.id_type = "str"

LimitAccepted == max_messages > 0 /\ Len(received_messages) >= max_messages

\* C5: once max_messages > 0 records are in the history the loop polls and
\* dispatches no more, whatever max_runtime is: the listener is at the head of
\* its next iteration, exiting or stopped; and it reaches STOPPED
C5_StopsAtMessageLimit ==
    /\ [](LimitAccepted => pc \in {"check", "exiting", "stopped"})
    /\ (LimitAccepted ~> Lifecycle = "STOPPED")

\* C5 witness: the listener stopped on its message limit, uninterrupted, with a
\* max_runtime that had not elapsed
C5_Witness ==
    /\ Lifecycle = "STOPPED"
    /\ LimitAccepted
    /\ ~interrupted
    /\ max_runtime > 0
    /\ execution_stats.runtime_seconds <= max_runtime

\* C6: with max_runtime > 0 and no traffic the listener is never running or
\* exiting later than max_runtime plus one readiness timeout after its start, it
\* stops with a runtime of at most that (and, uninterrupted, of more than
\* max_runtime), and it does stop
C6_StopsAtRuntimeLimit ==
    /\ []((max_runtime > 0 /\ net.arrived = 0) =>
            /\ Lifecycle \in {"RUNNING", "EXITING"}
                  => now - start_time <= max_runtime + PollTimeout
            /\ Lifecycle = "STOPPED"
                  => execution_stats.runtime_seconds <= max_runtime + PollTimeout
            /\ (Lifecycle = "STOPPED" /\ ~interrupted)
                  => execution_stats.runtime_seconds > max_runtime)
    /\ ((max_runtime > 0 /\ Lifecycle = "RUNNING") ~> Lifecycle = "STOPPED")

\* C6 witness: no datagram ever arrived and the listener stopped, uninterrupted,
\* max_runtime plus one readiness timeout after its start
C6_Witness ==
    /\ Lifecycle = "STOPPED"
    /\ max_runtime > 0
    /\ net.arrived = 0
    /\ ~interrupted
    /\ execution_stats.runtime_seconds = max_runtime + PollTimeout

\* The publisher ticked three times, every broadcast reached the listener, no
\* other datagram did, every acknowledgment was sent, and neither an interrupt
\* nor the runtime limit ended the run
EndToEnd ==
    /\ max_messages = 3
    /\ net.ticks = 3
    /\ net.arrived = 3
    /\ net.injected = 0
    /\ ~net.lost /\ ~net.send_failed /\ ~net.ack_failed
    /\ ~interrupted
    /\ ~RuntimeReached(elapsed_time)

\* C7: three ticks (ids 0, 1, 2, states ACTIVE, STANDBY, MAINTENANCE) to a
\* listener with max_messages = 3 and nothing lost: the listener stops with
\* messages_received = 3, the three states in order, last_processed_id = 2 and
\* three acknowledgments sent to the publisher's address
C7_EndToEnd ==
    (Lifecycle = "STOPPED" /\ EndToEnd) =>
        /\ execution_stats.messages_received = 3
        /\ [i \in 1..Len(execution_stats.received_messages) |->
                execution_stats.received_messages[i].state]
              = <<"ACTIVE", "STANDBY", "MAINTENANCE">>
        /\ Ids(execution_stats.received_messages) = <<0, 1, 2>>
        /\ last_processed_id = 2
        /\ acks = <<[to |-> PublisherAddr, message_id |-> 0],
                    [to |-> PublisherAddr, message_id |-> 1],
                    [to |-> PublisherAddr, message_id |-> 2]>>

\* C7 witness: the listener stopped at the end of that scenario
C7_Witness == Lifecycle = "STOPPED" /\ EndToEnd

Released ==
    /\ client_socket \in {"none", "closed"}
    /\ response_socket \in {"none", "closed"}
    /\ ~registered

C9_ReleasedOnEveryExit ==
    Lifecycle \in {"STOPPED", "FAILED", "ABORTED"} => Released

\* C10: the ids of the publisher's broadcasts are the initial id, then one more
\* per broadcast: no gap, no repeat
C10_MonotonicIds ==
    /\ \A i \in 1..Len(broadcasts) : broadcasts[i].id = InitialMessageId + (i - 1)
    /\ next_message_id = InitialMessageId + Len(broadcasts)

\* C10 witness: three broadcasts went out, with a failed send among the ticks
C10_Witness ==
    /\ Len(broadcasts) >= 2
    /\ net.send_failed

\* The cycle of the announced states, by tick count
CYCLE == <<"ACTIVE", "STANDBY", "MAINTENANCE", "ERROR">>

\* C11: the state announced on tick n is CYCLE[n mod 4] with CYCLE = ACTIVE,
\* STANDBY, MAINTENANCE, ERROR, whatever the sends before it came to and whatever
\* acknowledgments were sent; the state index only ever moves to its successor
\* in that order, ERROR being followed by ACTIVE
C11_StateCycle ==
    /\ [](/\ STATE_CYCLE[current_state_index + 1] = CYCLE[(net.ticks % 4) + 1]
          /\ \A i \in 1..Len(broadcasts) :
                \E n \in 0..(net.ticks - 1) :
                   /\ broadcasts[i].timestamp = IsoFormat(n)
                   /\ broadcasts[i].state = CYCLE[(n % 4) + 1])
    /\ [][IF net.ticks' # net.ticks
           THEN <<STATE_CYCLE[current_state_index + 1],
                  STATE_CYCLE[current_state_index' + 1]>>
                   \in {<<"ACTIVE", "STANDBY">>, <<"STANDBY", "MAINTENANCE">>,
                        <<"MAINTENANCE", "ERROR">>, <<"ERROR", "ACTIVE">>}
           ELSE current_state_index' = current_state_index]_vars

\* C11 witness: the fifth tick, after a send that failed and an acknowledgment
\* of the listener, announced ACTIVE again
C11_Witness ==
    /\ net.ticks = 5
    /\ net.send_failed
    /\ acks # <<>>
    /\ broadcasts # <<>>
    /\ broadcasts[Len(broadcasts)].timestamp = IsoFormat(4)
    /\ broadcasts[Len(broadcasts)].state = "ACTIVE"

\* A bound that is set, not 0, is reached
BoundReached ==
    \/ (max_runtime > 0 /\ now - start_time > max_runtime)
    \/ (max_messages > 0 /\ Len(received_messages) >= max_messages)

\* C12: at the head of every iteration the loop is left exactly when a bound
\* that is set is reached: max_runtime > 0 and elapsed > max_runtime, or
\* max_messages > 0 and len(received_messages) >= max_messages.  Nothing but
\* that and an interrupt ends RUNNING, so with both bounds 0 the listener stays
\* RUNNING until an interrupt arrives.
C12_LeavesRunningIffBound ==
    /\ [][(pc = "check" /\ pc' # "check" /\ interrupted' = interrupted) =>
             IF BoundReached THEN Lifecycle' = "EXITING" ELSE pc' = "select"]_vars
    /\ [][(Lifecycle = "RUNNING" /\ Lifecycle' # "RUNNING" /\ interrupted' = interrupted)
             => (pc = "check" /\ BoundReached /\ Lifecycle' = "EXITING")]_vars
    /\ [][(max_runtime = 0 /\ max_messages = 0 /\ Lifecycle = "RUNNING"
              /\ Lifecycle' # "RUNNING") => (~interrupted /\ interrupted')]_vars

\* C12 witness: with both bounds 0, time has passed and three messages are in
\* the history, and the uninterrupted listener is about to poll again
C12_Witness ==
    /\ max_runtime = 0
    /\ max_messages = 0
    /\ elapsed_time >= 2
    /\ Len(received_messages) = 3
    /\ ~interrupted
    /\ pc = "select"

\* The ids of the records no acknowledgment was sent for
Unacknowledged(records, sent) ==
    {records[i].message_id : i \in 1..Len(records)}
        \ {sent[i].message_id : i \in 1..Len(sent)}

\* C13: when the acknowledgment send of an accepted message fails nothing is
\* rolled back: the record is appended, last_processed_id is the accepted id, no
\* acknowledgment is added and the loop is RUNNING; records are never removed,
\* last_processed_id stays at or above every recorded id, and an id recorded
\* without acknowledgment is never acknowledged later, its redelivery being
\* dropped
C13_AckFailureKeepsAccepted ==
    /\ [][(HandlerStep /\ console'.report = "received_error") =>
             /\ received_messages' =
                   Append(received_messages,
                          ReceivedRecord(Head(queue), IsoFormat(now)))
             /\ last_processed_id' = MessageIdOf(Head(queue))
             /\ acks' = acks
             /\ Lifecycle' = "RUNNING"]_vars
    /\ [][/\ Len(received_messages') >= Len(received_messages)
          /\ SubSeq(received_messages', 1, Len(received_messages)) = received_messages
          /\ Unacknowledged(received_messages, acks)
                \subseteq Unacknowledged(received_messages', acks')]_vars
    /\ [](\A i \in 1..Len(received_messages) :
             received_messages[i].message_id <= last_processed_id)
    /\ [][(HandlerStep /\ Decodable(Head(queue))
              /\ MessageIdOf(Head(queue)) \in Unacknowledged(received_messages, acks))
             => (console'.report = "drop"
                 /\ UNCHANGED <<received_messages, last_processed_id, acks>>)]_vars

\* C13 witness: the acknowledgment of the latest record failed, the same id was
\* delivered again and dropped, and the loop is running
C13_Witness ==
    /\ net.ack_failed
    /\ ~interrupted
    /\ Lifecycle = "RUNNING"
    /\ console.report = "drop"
    /\ console.datagram.id_type = "int"
    /\ console.datagram.id = last_processed_id
    /\ last_processed_id \in Unacknowledged(received_messages, acks)

\* C14: the lifecycle moves RUNNING -> EXITING -> STOPPED only and STOPPED is
\* terminal; once the listener has left RUNNING no datagram is dispatched to the
\* handler and last_processed_id and received_messages do not change; the
\* summary of STOPPED has messages_received = len(received_messages) and
\* received_messages itself, the accepted records in acceptance order
C14_LifecycleAndSummary ==
    /\ [][/\ Lifecycle = "RUNNING" => Lifecycle' \in {"RUNNING", "EXITING"}
          /\ Lifecycle = "EXITING" => Lifecycle' \in {"EXITING", "STOPPED"}
          /\ Lifecycle = "STOPPED" => Lifecycle' = "STOPPED"
          /\ Lifecycle' = "EXITING" => Lifecycle \in {"RUNNING", "EXITING"}
          /\ Lifecycle' = "STOPPED" => Lifecycle \in {"EXITING", "STOPPED"}]_vars
    /\ [][(Lifecycle # "RUNNING" /\ Lifecycle # "STARTING") =>
             /\ UNCHANGED <<last_processed_id, received_messages, acks, console>>
             /\ (queue' = queue \/ Len(queue') > Len(queue) \/ Lifecycle' = "STOPPED")]_vars
    /\ [][(Lifecycle = "STOPPED") => UNCHANGED listenerVars]_vars
    /\ [](Lifecycle = "STOPPED" =>
             /\ execution_stats.done
             /\ execution_stats.messages_received = Len(received_messages)
             /\ execution_stats.received_messages = received_messages
             /\ \A i, j \in 1..Len(received_messages) :
                   i < j => received_messages[i].message_id
                               < received_messages[j].message_id)

\* C14 witness: the listener stopped with two records, one of them not
\* acknowledged, while a datagram that had arrived was never dispatched
C14_Witness ==
    /\ Lifecycle = "STOPPED"
    /\ Len(execution_stats.received_messages) = 2
    /\ Len(acks) = 1
    /\ net.arrived > 2

\* A tick whose send failed
FailedTick == net.ticks' = net.ticks + 1 /\ broadcasts' = broadcasts

\* C15: a failed broadcast send does not stop the publisher and does not
\* corrupt its counters: the tick leaves the broadcasts and next_message_id as
\* they were and advances the state index, the next tick can proceed, and every
\* message broadcast later carries an id greater than all earlier ones, the
\* next one to come included
C15_SendFailureHarmless ==
    /\ [][FailedTick =>
             /\ next_message_id' = next_message_id
             /\ current_state_index' = (current_state_index + 1) % 4]_vars
    /\ []((net.send_failed /\ net.ticks < budget.ticks) =>
             ENABLED (tick("lost") \/ tick("failed")))
    /\ [](/\ \A i, j \in 1..Len(broadcasts) :
                i < j => broadcasts[i].id < broadcasts[j].id
          /\ \A i \in 1..Len(broadcasts) : broadcasts[i].id < next_message_id)
    /\ [][next_message_id' >= next_message_id]_vars

\* C15 witness: a broadcast, then a tick whose send failed, then two more
\* broadcasts
C15_Witness ==
    /\ net.send_failed
    /\ Len(broadcasts) = 3
    /\ net.ticks = 4
    /\ broadcasts[1].timestamp = IsoFormat(0)
    /\ broadcasts[2].timestamp = IsoFormat(2)
    /\ broadcasts[3].id = 2

\* The payload is an object with a numeric message_id (or none) that lacks the
\* timestamp or the state
LacksField(d) ==
    /\ d.payload = "object"
    /\ d.id_type # "str"
    /\ (d.timestamp = Absent \/ d.state = Absent)

\* The value a record holds for a field of the payload
Recorded(field) == IF field = Absent THEN "unknown" ELSE field

LastRecordedId ==
    IF received_messages = <<>> THEN 0 - 1
    ELSE received_messages[Len(received_messages)].message_id

\* C17: between handler invocations and in STOPPED, after an interrupt too, the
\* message_ids of received_messages are strictly increasing in append order and
\* last_processed_id is the message_id of the most recently appended record (-1
\* when received_messages is empty)
C17_RatchetIsLastRecord ==
    Lifecycle \in {"RUNNING", "EXITING", "STOPPED"} =>
        /\ \A i, j \in 1..Len(received_messages) :
              i < j => received_messages[i].message_id < received_messages[j].message_id
        /\ last_processed_id = LastRecordedId

\* C17 witness: an interrupt reached the handler after it had assigned
\* last_processed_id and before it appended the record; the listener stopped
\* with a ratchet that no record carries
C17_Witness ==
    /\ Lifecycle = "STOPPED"
    /\ interrupted
    /\ console.report = "interrupted"
    /\ last_processed_id # LastRecordedId
    /\ execution_stats.messages_received = 0

\* C18: with max_messages = N > 0 the history never holds more than N records,
\* however the datagrams arrive and however many wait in the receive buffer: a
\* step appends at most one record and takes at most one datagram from the
\* buffer, and it appends only while the history is below N
C18_NeverExceedsLimit ==
    /\ [](max_messages > 0 => Len(received_messages) <= max_messages)
    /\ [][/\ Len(received_messages') <= Len(received_messages) + 1
          /\ (received_messages' # received_messages /\ max_messages > 0)
                => Len(received_messages) < max_messages
          /\ Lifecycle' # "STOPPED" => Len(queue') >= Len(queue) - 1]_vars

\* C18 witness: the uninterrupted listener left its loop with max_messages
\* records while two more datagrams were waiting in the receive buffer
C18_Witness ==
    /\ max_messages > 0
    /\ Len(received_messages) = max_messages
    /\ Len(queue) = 2
    /\ pc = "exiting"
    /\ ~interrupted

\* A record of another sender carries an id at or above the datagram's
AcceptedFromAnother(d) ==
    \E i \in 1..Len(received_messages) :
        /\ received_messages[i].server # d.src
        /\ received_messages[i].message_id >= MessageIdOf(d)

\* C19: the ratchet is one value for the whole listener, not one per sender.
\* Once id k is accepted from any sender, a datagram with an id <= k from
\* another sender (a restarted publisher whose ids start again from 0 is such a
\* sender) is dropped without record or acknowledgment, and whatever is
\* accepted, from whomever, carries an id above every recorded one.
C19_OneRatchetForAllSenders ==
    /\ [][(HandlerStep /\ Decodable(Head(queue)) /\ AcceptedFromAnother(Head(queue)))
             => (console'.report = "drop"
                 /\ UNCHANGED <<received_messages, last_processed_id, acks>>)]_vars
    /\ [][(HandlerStep /\ received_messages' # received_messages) =>
             \A i \in 1..Len(received_messages) :
                received_messages[i].message_id < MessageIdOf(Head(queue))]_vars

\* C19 witness: the only record is of one sender, and a message with id 0 from
\* the other sender, the publisher's address, was dropped
C19_Witness ==
    /\ console.report = "drop"
    /\ console.datagram.id_type = "int"
    /\ console.datagram.id = 0
    /\ console.datagram.src = PublisherAddr
    /\ Len(received_messages) = 1
    /\ received_messages[1].server = OtherAddr
    /\ acks = <<[to |-> OtherAddr, message_id |-> last_processed_id]>>

\* C20: an object without message_id is never accepted, the first datagram of a
\* listener whose last_processed_id is still -1 included: the handler appends
\* no record, sends no acknowledgment, leaves last_processed_id as it is and
\* reports no error; so no record ever carries the id -1
C20_MissingIdNeverAccepted ==
    /\ [][(HandlerStep /\ Head(queue).payload = "object"
              /\ Head(queue).id_type = Absent)
             => (console'.report = "drop"
                 /\ UNCHANGED <<received_messages, last_processed_id, acks>>)]_vars
    /\ [](\A i \in 1..Len(received_messages) :
             received_messages[i].message_id > 0 - 1)

\* C20 witness: a message without message_id was the first datagram of the
\* listener and was dropped
C20_Witness ==
    /\ console.report = "drop"
    /\ console.datagram.payload = "object"
    /\ console.datagram.id_type = Absent
    /\ last_processed_id = 0 - 1
    /\ received_messages = <<>>
    /\ acks = <<>>
    /\ net.arrived = 1

====
